---- MODULE Spec2Model ----
(***************************************************************************)
(* FastAttention / LinAttention and their transformer blocks               *)
(* (src/models/fastformer.py, src/models/linformer.py) as a state machine: *)
(* a module is constructed from its hyper-parameters, switched between     *)
(* training and evaluation mode, has its parameters replaced by an         *)
(* external optimizer, and is called on (B,N,C) tensors.                   *)
(*                                                                         *)
(* A tensor is its shape plus, where the value is exactly representable,   *)
(* its value: tensors of one element carry a rational number (softmax over *)
(* an axis of size 1 is exactly 1, LayerNorm over one channel is exactly   *)
(* its bias, dropout rescales by 1/(1-p)), larger tensors carry only their *)
(* shape.                                                                  *)
(***************************************************************************)
EXTENDS Integers, Sequences, FiniteSets, TLC

VARIABLES
    args,   \* the arguments of the last constructor call
    mod,    \* the module object the constructor left behind (its fields)
    phase,  \* "new", "built", or the exception the constructor raised
    call,   \* the record of the last forward call since the module changed
    train   \* the training run of train.py: main's epoch loop and train_one_epoch

vars == <<args, mod, phase, call, train>>

----------------------------------------------------------------------------
(* Bounds of the model *)
MaxDim == 4        \* dim and input channels range over 1..MaxDim
MaxHeads == 2      \* num_heads ranges over 1..MaxHeads
MaxTokens == 3     \* num_tokens and input tokens range over 1..MaxTokens
MaxRatio == 2      \* kv_tokens_ratio ranges over 1..MaxRatio
MaxBatch == 2      \* batch size ranges over 1..MaxBatch
PDen == 2          \* probabilities are the fractions k/PDen
MaxInvSq == 2      \* qk_scale ranges over n^-0.5, n in 1..MaxInvSq
MaxMlpRatio == 2   \* mlp_ratio ranges over 1..MaxMlpRatio
MaxBatches == 2    \* len(loader) ranges over 1..MaxBatches
MaxEpochs == 3     \* num_epochs; epochs are numbered 0..MaxEpochs-1
MaxLogInterval == 2 \* args.log_interval ranges over 1..MaxLogInterval

----------------------------------------------------------------------------
(* Exact rational arithmetic *)
Abs(i) == IF i < 0 THEN -i ELSE i

RECURSIVE Gcd(_, _)
Gcd(a, b) == IF b = 0 THEN a ELSE Gcd(b, a % b)

Rat(n, d) ==
    LET g == Gcd(Abs(n), Abs(d))
        s == IF d < 0 THEN -1 ELSE 1
    IN  [n |-> s * (n \div g), d |-> s * (d \div g)]

RInt(i) == [n |-> i, d |-> 1]
Zero == RInt(0)
One == RInt(1)
RAdd(a, b) == Rat(a.n * b.d + b.n * a.d, a.d * b.d)
RSub(a, b) == Rat(a.n * b.d - b.n * a.d, a.d * b.d)
RMul(a, b) == Rat(a.n * b.n, a.d * b.d)
RDiv(a, b) == Rat(a.n * b.d, a.d * b.n)
RMax(a, b) == IF a.n * b.d >= b.n * a.d THEN a ELSE b

\* the probability k/PDen
Prob(k) == Rat(k, PDen)

----------------------------------------------------------------------------
(* Tensors *)
RECURSIVE Numel(_)
Numel(shape) == IF shape = <<>> THEN 1 ELSE Head(shape) * Numel(Tail(shape))

Last(s) == s[Len(s)]
Front(s) == SubSeq(s, 1, Len(s) - 1)

\* a tensor of the given shape; its value is tracked when it has one element
\* (an empty tensor has no element and is tracked with value 0)
Tensor(shape, known, v) ==
    LET n == Numel(shape)
    IN  [shape |-> shape,
         known |-> known /\ n <= 1,
         v     |-> IF known /\ n = 1 THEN v ELSE Zero]

NoTensor == Tensor(<<>>, FALSE, Zero)

----------------------------------------------------------------------------
(* Hyper-parameters and construction *)
Kinds == {"FastAttention", "LinAttention", "FastAttentionBlock", "LinformerBlock"}
IsLin(kind) == kind \in {"LinAttention", "LinformerBlock"}
IsBlock(kind) == kind \in {"FastAttentionBlock", "LinformerBlock"}

\* a scale s is held as the integer n with s = n^-0.5
QkNone == [set |-> FALSE, invsq |-> 1]
QkScales == {QkNone} \cup {[set |-> TRUE, invsq |-> n] : n \in 1..MaxInvSq}

\* dropout probabilities a caller may pass: one negative, zero, one inside (0,1)
DropProbs == {Prob(k) : k \in {-1, 0, 1}}
\* stochastic-depth probabilities: the same and 1
PathProbs == DropProbs \cup {Prob(PDen)}

\* the parameter tensors as the seed initialised them and the optimizer left
\* them (the one element of each where the tensor has one element); the qkv
\* projection has no bias (qkv_bias=False)
Weight(seed, member) ==
    CASE member = "qkv.q"   -> RInt(seed)
      [] member = "qkv.k"   -> RInt(seed + 1)
      [] member = "qkv.v"   -> RInt(2 * seed - 1)
      [] member = "w_q"     -> RInt(seed)
      [] member = "w_k"     -> RInt(3 - seed)
      [] member = "proj"    -> RInt(seed + 2)
      [] member = "proj_kv" -> RInt(seed + 1)
      [] member = "fc1"     -> RInt(2)
      [] member = "fc2"     -> RInt(2)
      [] OTHER -> Zero

Bias(seed, member) ==
    CASE member = "proj"    -> RInt(1)
      [] member = "proj_kv" -> RInt(seed)
      [] member = "norm1"   -> RInt(seed)
      [] member = "norm2"   -> RInt(2 * seed - 3)
      [] member = "fc1"     -> RInt(1)
      [] member = "fc2"     -> RInt(seed)
      [] OTHER -> Zero

\* the weight of a member of module m: proj_kv's is held in the module
\* record, where it can be assigned on its own
WeightOf(m, member) ==
    IF member = "proj_kv" THEN m.proj_kv ELSE Weight(m.seed, member)

NoArgs ==
    [kind |-> "FastAttention", dim |-> 1, num_heads |-> 1, num_tokens |-> 0,
     kv_tokens_ratio |-> 1, mlp_ratio |-> 1, qk_scale |-> QkNone,
     attn_drop |-> Zero, drop |-> Zero, drop_path |-> Zero, seed |-> 1]

NoModule ==
    [kind |-> "FastAttention", training |-> FALSE, dim |-> 0, num_heads |-> 0,
     head_dim |-> 0, scale |-> 0, num_tokens |-> 0, kv_tokens |-> 0,
     hidden |-> 0, attn_drop |-> Zero, proj_drop |-> Zero, mlp_drop |-> Zero,
     drop_path |-> [identity |-> TRUE, p |-> Zero],
     seed |-> 0, proj_kv |-> Zero]

\* nn.Dropout.__init__: p outside [0,1] raises ValueError
BadDropout(p) == p.n < 0 \/ p.n > p.d

\* self.scale = head_dim ** -0.5, as the n with scale = n^-0.5; the
\* constructor's qk_scale argument is not read
InitScale(head_dim, qk_scale) == head_dim

\* FastAttention.__init__ / LinAttention.__init__: the exception the
\* constructor raises, "" when it returns
AttentionInitError(a) ==
    IF a.dim \div a.num_heads = 0 THEN "ZeroDivisionError"   \* 0 ** -0.5
    ELSE IF BadDropout(a.attn_drop) THEN "ValueError"
    ELSE IF BadDropout(a.drop) THEN "ValueError"
    ELSE ""

\* the drop_path member of a block
DropPathMember(drop_path) ==
    IF drop_path.n > 0 THEN [identity |-> FALSE, p |-> drop_path]
    ELSE [identity |-> TRUE, p |-> Zero]

\* the fields the constructor sets
AttentionInit(a) ==
    [kind |-> a.kind, training |-> TRUE, dim |-> a.dim, num_heads |-> a.num_heads,
     head_dim |-> a.dim \div a.num_heads,
     scale |-> InitScale(a.dim \div a.num_heads, a.qk_scale),
     num_tokens |-> IF IsLin(a.kind) THEN a.num_tokens ELSE 0,
     kv_tokens |-> IF IsLin(a.kind) THEN a.num_tokens \div a.kv_tokens_ratio ELSE 0,
     hidden |-> 0, attn_drop |-> a.attn_drop, proj_drop |-> a.drop,
     mlp_drop |-> Zero,
     drop_path |-> [identity |-> TRUE, p |-> Zero],
     seed |-> a.seed,
     proj_kv |-> IF IsLin(a.kind) THEN Weight(a.seed, "proj_kv") ELSE Zero]

BlockInit(a) ==
    [AttentionInit(a) EXCEPT !.drop_path = DropPathMember(a.drop_path),
                             !.hidden = a.dim * a.mlp_ratio,
                             !.mlp_drop = a.drop]

NewModule(a) == IF IsBlock(a.kind) THEN BlockInit(a) ELSE AttentionInit(a)

NoCall ==
    [status |-> "none", err |-> "", ops |-> <<>>, scales |-> {}, axes |-> <<>>,
     x |-> NoTensor, env |-> ("x" :> NoTensor), again |-> FALSE]

----------------------------------------------------------------------------
(* Tensor operations, by shape and (for one-element tensors) by value *)

\* a forward call in progress: the tensors computed so far (env), the
\* operations started so far (ops), the exception raised (err, "" while none),
\* the scales multiplied into softmax inputs (scales) and the lengths of the
\* axes softmax normalised (axes)
Put(r, name, t) == [r EXCEPT !.env = (name :> t) @@ @]
Fail(r, e) == [r EXCEPT !.err = e]
Both(a, b) == a.known /\ b.known

\* (mutant) dropout that does not look at the mode
DropoutInEval(t, p, training, mask) ==
    IF p = Zero THEN t
    ELSE IF p = One THEN Tensor(t.shape, t.known, Zero)
    ELSE Tensor(t.shape, t.known, RDiv(RMul(t.v, RInt(mask)), RSub(One, p)))

\* torch.nn.functional.dropout(t, p, training), mask the Bernoulli(1-p) draw
Dropout(t, p, training, mask) ==
    IF ~training \/ p = Zero THEN t
    ELSE IF p = One THEN Tensor(t.shape, t.known, Zero)
    ELSE Tensor(t.shape, t.known, RDiv(RMul(t.v, RInt(mask)), RSub(One, p)))

\* (mutant) stochastic depth that does not look at the mode
DropPathInEval(t, p, training, mask) ==
    IF p = Zero THEN t
    ELSE LET keep == RSub(One, p)
             random == IF keep.n > 0 THEN RDiv(RInt(mask), keep) ELSE RInt(mask)
         IN  Tensor(t.shape, t.known, RMul(t.v, random))

\* (mutant) a gate that lets every branch through
GateOpen(m, t, mask) == t

\* timm DropPath.forward(t): drop_path(t, drop_prob, training, scale_by_keep=True),
\* mask the per-sample Bernoulli(1-p) draw
DropPath(t, p, training, mask) ==
    IF p = Zero \/ ~training THEN t
    ELSE LET keep == RSub(One, p)
             random == IF keep.n > 0 THEN RDiv(RInt(mask), keep) ELSE RInt(mask)
         IN  Tensor(t.shape, t.known, RMul(t.v, random))

\* self.drop_path(t): nn.Identity or DropPath
Gate(m, t, mask) ==
    IF m.drop_path.identity THEN t ELSE DropPath(t, m.drop_path.p, m.training, mask)

\* softmax over the last axis: exactly 1 on an axis of size 1
Softmax(t) == Tensor(t.shape, Last(t.shape) <= 1, One)

\* multiplication by self.scale = n^-0.5: exact when n = 1
Scaled(t, scale) == Tensor(t.shape, t.known /\ scale = 1, t.v)

----------------------------------------------------------------------------
(* FastAttention.forward and LinAttention.forward, one operation per step *)

\* self.qkv(x): nn.Linear(dim, 3*dim); the three thirds of its output's
\* channel axis are kept as qkv.0, qkv.1, qkv.2
StepQkv(m, r) ==
    LET x == r.env["ain"]
        third(w) == Tensor(Front(x.shape) \o <<m.dim>>, x.known,
                           RMul(WeightOf(m, w), x.v))
    IN  IF Last(x.shape) # m.dim THEN Fail(r, "RuntimeError")
        ELSE Put(Put(Put(Put(r,
                "qkv", Tensor(Front(x.shape) \o <<3 * m.dim>>, FALSE, Zero)),
                "qkv.0", third("qkv.q")), "qkv.1", third("qkv.k")),
                "qkv.2", third("qkv.v"))

\* rearrange(.., "B N (qkv H C) -> qkv B H N C", qkv=3, H=num_heads), unbind(0)
StepSplit(m, r) ==
    LET s == r.env["qkv"].shape
        c == Last(s) \div (3 * m.num_heads)
        part(i) == LET t == r.env[i]
                   IN Tensor(<<s[1], m.num_heads, s[2], c>>, t.known, t.v)
    IN  IF Last(s) % (3 * m.num_heads) # 0 THEN Fail(r, "EinopsError")
        ELSE Put(Put(Put(r, "q", part("qkv.0")), "k", part("qkv.1")),
                 "v", part("qkv.2"))

\* einsum("BHNC,HC->BHN", t, w) * self.scale
Score(m, r, src, w, dst) ==
    LET t == r.env[src]
    IN  IF t.shape[2] # m.num_heads \/ t.shape[4] # m.head_dim
        THEN Fail(r, "RuntimeError")
        ELSE [Put(r, dst, Scaled(Tensor(Front(t.shape), t.known,
                                        RMul(t.v, WeightOf(m, w))), m.scale))
              EXCEPT !.scales = @ \cup {m.scale}]

\* t.softmax(dim=-1); the length of the axis normalised is noted
StepSoftmax(r, name) ==
    [Put(r, name, Softmax(r.env[name]))
     EXCEPT !.axes = Append(@, Last(r.env[name].shape))]

\* einsum("BHN,BHNC->BHNC", w, t) and reduce(.., "B H N C -> B H C", "sum"):
\* a tracked value has N = 1
Pool(r, w, src, dst) ==
    LET a == r.env[w]
        t == r.env[src]
    IN  IF a.shape # Front(t.shape) THEN Fail(r, "RuntimeError")
        ELSE Put(r, dst, Tensor(<<t.shape[1], t.shape[2], t.shape[4]>>,
                                Both(a, t), RMul(a.v, t.v)))

\* einsum("BHC,BHNC->BHNC", g, t)
Broadcast(r, g, src, dst) ==
    LET a == r.env[g]
        t == r.env[src]
    IN  IF a.shape # <<t.shape[1], t.shape[2], t.shape[4]>>
        THEN Fail(r, "RuntimeError")
        ELSE Put(r, dst, Tensor(t.shape, Both(a, t), RMul(a.v, t.v)))

\* (mutant) a recombination that keeps the channels of one head
MergeOneHead(t) == Tensor(<<t.shape[1], t.shape[3], t.shape[4]>>, t.known, t.v)

\* rearrange(t, "B H N C -> B N (H C)")
Merge(t) == Tensor(<<t.shape[1], t.shape[3], t.shape[2] * t.shape[4]>>, t.known, t.v)

\* self.proj(t): nn.Linear(dim, dim)
Proj(m, t) ==
    Tensor(t.shape, t.known,
           RAdd(RMul(WeightOf(m, "proj"), t.v), Bias(m.seed, "proj")))

\* (mutant) a shortcut that adds the module input in place of the queries
StepFastProjAddsInput(m, r) ==
    LET u == r.env["u"]
        q == r.env["ain"]
    IN  IF Last(u.shape) # m.dim \/ q.shape # u.shape THEN Fail(r, "RuntimeError")
        ELSE Put(r, "aout", Tensor(u.shape, Both(u, q), RAdd(Proj(m, u).v, q.v)))

\* x = self.proj(u) + q
StepFastProj(m, r) ==
    LET u == r.env["u"]
        q == r.env["q"]
    IN  IF Last(u.shape) # m.dim \/ q.shape # u.shape THEN Fail(r, "RuntimeError")
        ELSE Put(r, "aout", Tensor(u.shape, Both(u, q), RAdd(Proj(m, u).v, q.v)))

FastStep(m, op, r, k) ==
    CASE op = "qkv"           -> StepQkv(m, r)
      [] op = "split"         -> StepSplit(m, r)
      [] op = "alpha"         -> Score(m, r, "q", "w_q", "alpha")
      [] op = "alpha.softmax" -> StepSoftmax(r, "alpha")
      [] op = "global_q"      -> Pool(r, "alpha", "q", "global_q")
      [] op = "p"             -> Broadcast(r, "global_q", "k", "p")
      [] op = "attn_drop"     ->
            Put(r, "p", Dropout(r.env["p"], m.attn_drop, m.training, k.attn))
      [] op = "beta"          -> Score(m, r, "p", "w_k", "beta")
      [] op = "beta.softmax"  -> StepSoftmax(r, "beta")
      [] op = "global_k"      -> Pool(r, "beta", "k", "global_k")
      [] op = "u"             -> Broadcast(r, "global_k", "v", "u")
      [] op = "merge"         ->
            Put(Put(r, "q", Merge(r.env["q"])), "u", Merge(r.env["u"]))
      [] op = "proj"          -> StepFastProj(m, r)
      [] op = "proj_drop"     ->
            Put(r, "aout", Dropout(r.env["aout"], m.proj_drop, m.training, k.proj))

FastProgram ==
    <<"qkv", "split", "alpha", "alpha.softmax", "global_q", "p", "attn_drop",
      "beta", "beta.softmax", "global_k", "u", "merge", "proj", "proj_drop">>

\* rearrange(.., "B N (qkv H C) -> qkv B H C N", qkv=3, H=num_heads)
StepSplitT(m, r) ==
    LET s == r.env["qkv"].shape
        c == Last(s) \div (3 * m.num_heads)
        part(i) == LET t == r.env[i]
                   IN Tensor(<<s[1], m.num_heads, c, s[2]>>, t.known, t.v)
    IN  IF Last(s) % (3 * m.num_heads) # 0 THEN Fail(r, "EinopsError")
        ELSE Put(Put(Put(r, "qkv.0", part("qkv.0")), "qkv.1", part("qkv.1")),
                 "qkv.2", part("qkv.2"))

\* rearrange(t, "B H C N -> B H N C") and rearrange(t, "B H C K -> B H K C")
Transpose(t) == Tensor(<<t.shape[1], t.shape[2], t.shape[4], t.shape[3]>>, t.known, t.v)

\* (mutant) a token projection that does not reduce the token count
TokenProjectionFullLength(m, member, t) ==
    Tensor(Front(t.shape) \o <<m.num_tokens>>, t.known,
           RAdd(RMul(WeightOf(m, member), t.v), Bias(m.seed, member)))

\* nn.Linear(num_tokens, num_tokens // kv_tokens_ratio) on the token axis,
\* with the weights of the member named
TokenProjection(m, member, t) ==
    Tensor(Front(t.shape) \o <<m.kv_tokens>>, t.known,
           RAdd(RMul(WeightOf(m, member), t.v), Bias(m.seed, member)))

\* (mutant) a token projection that takes an input of any token count
TokenProjectionFitsAny(m, t) == TRUE

\* F.linear accepts its input: the last axis has in_features = num_tokens elements
TokenProjectionFits(m, t) == Last(t.shape) = m.num_tokens

\* (mutant) a second map, with weights of its own, for the values
ValueProjectionSeparate == "proj_v"

\* the member that projects the keys, line 40, and the values, line 41
KeyProjection == "proj_kv"
ValueProjection == "proj_kv"

\* self.proj_kv(qkv[1])
StepProjK(m, r) ==
    LET t == r.env["qkv.1"]
    IN  IF ~TokenProjectionFits(m, t) THEN Fail(r, "RuntimeError")
        ELSE Put(r, "k", TokenProjection(m, KeyProjection, t))

\* rearrange(self.proj_kv(qkv[2]), "B H C K -> B H K C")
StepProjV(m, r) ==
    LET t == r.env["qkv.2"]
    IN  IF ~TokenProjectionFits(m, t) THEN Fail(r, "RuntimeError")
        ELSE Put(r, "v", Transpose(TokenProjection(m, ValueProjection, t)))

\* a @ b on the last two axes; a sum over an empty axis is 0
MatMul(a, b) ==
    Tensor(Front(a.shape) \o <<Last(b.shape)>>, Both(a, b),
           IF Last(a.shape) = 0 THEN Zero ELSE RMul(a.v, b.v))

MatMulFits(a, b) ==
    /\ Len(a.shape) = Len(b.shape)
    /\ SubSeq(a.shape, 1, Len(a.shape) - 2) = SubSeq(b.shape, 1, Len(b.shape) - 2)
    /\ Last(a.shape) = b.shape[Len(b.shape) - 1]

\* attn = (q @ k) * self.scale
StepAttn(m, r) ==
    LET q == r.env["q"]
        k == r.env["k"]
    IN  IF ~MatMulFits(q, k) THEN Fail(r, "RuntimeError")
        ELSE [Put(r, "attn", Scaled(MatMul(q, k), m.scale))
              EXCEPT !.scales = @ \cup {m.scale}]

\* x = rearrange(attn @ v, "B H N C -> B N (H C)")
StepAV(m, r) ==
    LET a == r.env["attn"]
        v == r.env["v"]
    IN  IF ~MatMulFits(a, v) THEN Fail(r, "RuntimeError")
        ELSE Put(r, "av", Merge(MatMul(a, v)))

\* x = self.proj(x)
StepLinProj(m, r) ==
    LET t == r.env["av"]
    IN  IF Last(t.shape) # m.dim THEN Fail(r, "RuntimeError")
        ELSE Put(r, "aout", Proj(m, t))

LinStep(m, op, r, k) ==
    CASE op = "qkv"       -> StepQkv(m, r)
      [] op = "split"     -> StepSplitT(m, r)
      [] op = "q"         -> Put(r, "q", Transpose(r.env["qkv.0"]))
      [] op = "proj_k"    -> StepProjK(m, r)
      [] op = "proj_v"    -> StepProjV(m, r)
      [] op = "attn"      -> StepAttn(m, r)
      [] op = "softmax"   -> StepSoftmax(r, "attn")
      [] op = "attn_drop" ->
            Put(r, "attn", Dropout(r.env["attn"], m.attn_drop, m.training, k.attn))
      [] op = "av"        -> StepAV(m, r)
      [] op = "proj"      -> StepLinProj(m, r)
      [] op = "proj_drop" ->
            Put(r, "aout", Dropout(r.env["aout"], m.proj_drop, m.training, k.proj))

LinProgram ==
    <<"qkv", "split", "q", "proj_k", "proj_v", "attn", "softmax", "attn_drop",
      "av", "proj", "proj_drop">>

----------------------------------------------------------------------------
(* FastAttentionBlock.forward and LinformerBlock.forward *)

\* the tensor each normalisation was given is kept under this name
NormInput(member) == IF member = "norm1" THEN "norm1.in" ELSE "norm2.in"

\* (mutant) the second half of the block reads the block input again
FirstResidualIsInput == "x"

\* the x of line 107: line 106 has rebound x to the first residual sum
FirstResidual == "x1"

\* norm_layer(dim) = nn.LayerNorm: over one channel the normalised value is 0
\* and the result is the bias
StepNorm(m, r, src, member, dst) ==
    LET t == r.env[src]
    IN  IF Last(t.shape) # m.dim THEN Fail(r, "RuntimeError")
        ELSE Put(Put(r, NormInput(member), t),
                 dst, Tensor(t.shape, t.known, Bias(m.seed, member)))

\* a + b of two tensors of one shape
StepAdd(r, a, b, dst) ==
    LET s == r.env[a]
        t == r.env[b]
    IN  IF s.shape # t.shape THEN Fail(r, "RuntimeError")
        ELSE Put(r, dst, Tensor(s.shape, Both(s, t), RAdd(s.v, t.v)))

\* timm Mlp: fc1 = nn.Linear(dim, hidden), fc2 = nn.Linear(hidden, dim)
StepFc(m, r, in_features, out_features, member) ==
    LET t == r.env["mlp"]
    IN  IF Last(t.shape) # in_features THEN Fail(r, "RuntimeError")
        ELSE Put(r, "mlp", Tensor(Front(t.shape) \o <<out_features>>, t.known,
                    RAdd(RMul(WeightOf(m, member), t.v), Bias(m.seed, member))))

\* self.mlp.act: act_layer is a constructor argument (default nn.GELU, whose
\* values are irrational); the blocks explored are built with
\* act_layer = nn.ReLU, which is exact
Act(t) == Tensor(t.shape, t.known, RMax(t.v, Zero))

BlockStep(m, op, r, k) ==
    CASE op = "norm1"      -> StepNorm(m, r, "x", "norm1", "ain")
      [] op = "drop_path1" -> Put(r, "branch1", Gate(m, r.env["aout"], k.path1))
      [] op = "residual1"  -> StepAdd(r, "x", "branch1", "x1")
      [] op = "norm2"      -> StepNorm(m, r, FirstResidual, "norm2", "mlp")
      [] op = "fc1"        -> StepFc(m, r, m.dim, m.hidden, "fc1")
      [] op = "act"        -> Put(r, "mlp", Act(r.env["mlp"]))
      [] op = "mlp_drop1"  ->
            Put(r, "mlp", Dropout(r.env["mlp"], m.mlp_drop, m.training, k.mlp1))
      [] op = "fc2"        -> StepFc(m, r, m.hidden, m.dim, "fc2")
      [] op = "mlp_drop2"  ->
            Put(r, "mlp", Dropout(r.env["mlp"], m.mlp_drop, m.training, k.mlp2))
      [] op = "drop_path2" -> Put(r, "branch2", Gate(m, r.env["mlp"], k.path2))
      [] op = "residual2"  -> StepAdd(r, FirstResidual, "branch2", "out")
      [] OTHER -> IF IsLin(m.kind) THEN LinStep(m, op, r, k) ELSE FastStep(m, op, r, k)

BlockHead == <<"norm1">>
BlockTail ==
    <<"drop_path1", "residual1", "norm2", "fc1", "act", "mlp_drop1", "fc2",
      "mlp_drop2", "drop_path2", "residual2">>

AttentionProgram(m) == IF IsLin(m.kind) THEN LinProgram ELSE FastProgram

\* the operations of m.forward, in program order
Program(m) ==
    IF IsBlock(m.kind) THEN BlockHead \o AttentionProgram(m) \o BlockTail
    ELSE AttentionProgram(m)

\* one operation of m.forward
Step(m, op, r, k) ==
    IF IsBlock(m.kind) THEN BlockStep(m, op, r, k)
    ELSE IF IsLin(m.kind) THEN LinStep(m, op, r, k) ELSE FastStep(m, op, r, k)

\* run the operations in order until one raises
RECURSIVE Run(_, _, _, _)
Run(m, prog, r, k) ==
    IF prog = <<>> \/ r.err # "" THEN r
    ELSE Run(m, Tail(prog),
             Step(m, Head(prog), [r EXCEPT !.ops = Append(@, Head(prog))], k), k)

\* m.forward(x) with the dropout draws k
ForwardCall(m, x, k) ==
    LET start == [env |-> IF IsBlock(m.kind) THEN ("x" :> x)
                          ELSE ("x" :> x) @@ ("ain" :> x),
                  ops |-> <<>>, err |-> "", scales |-> {}, axes |-> <<>>]
        r == Run(m, Program(m), start, k)
    IN  [status |-> IF r.err = "" THEN "ok" ELSE "error", err |-> r.err,
         ops |-> r.ops, scales |-> r.scales, axes |-> r.axes, x |-> x,
         env |-> r.env, again |-> FALSE]

\* the tensor a successful call returns
Output(c) == IF "out" \in DOMAIN c.env THEN c.env["out"] ELSE c.env["aout"]

----------------------------------------------------------------------------
(* The state machine *)

\* parameter initialisations and input element values
Seeds == {1, 2}
InputVals == {1, 2}

\* the outcomes of a Bernoulli draw at a dropout site
Draws(active, p) ==
    IF ~active THEN {1} ELSE IF p = One THEN {0} ELSE {0, 1}

\* the random stream one forward call may read: a Bernoulli draw for every
\* dropout site with p > 0 (where a value is tracked); the site decides
\* whether it reads it
Masks(m, x) ==
    LET on(p) == x.known /\ p.n > 0
    IN  [attn  : Draws(on(m.attn_drop), m.attn_drop),
         proj  : Draws(on(m.proj_drop), m.proj_drop),
         mlp1  : Draws(on(m.mlp_drop), m.mlp_drop),
         mlp2  : Draws(on(m.mlp_drop), m.mlp_drop),
         path1 : Draws(on(m.drop_path.p) /\ ~m.drop_path.identity, m.drop_path.p),
         path2 : Draws(on(m.drop_path.p) /\ ~m.drop_path.identity, m.drop_path.p)]

\* the command lines of train.py explored: the loader's length, the optional
\* steps of a batch, the process's ranks, whether the run is resumed, whether
\* it logs to wandb, and whether its output directory holds a summary.csv
TrainConfigs ==
    [len : 1..MaxBatches, scaler : BOOLEAN, clip : BOOLEAN, ema : BOOLEAN,
     sched : BOOLEAN, local_rank : 0..1, rank : 0..1,
     log_interval : 1..MaxLogInterval, resume : BOOLEAN,
     log_wandb : BOOLEAN, summary_exists : BOOLEAN]

\* before main runs
NoTrain ==
    [pc |-> "idle", cfg |-> CHOOSE c \in TrainConfigs : TRUE,
     epoch |-> 0, batch_idx |-> 0, last_idx |-> 0, num_updates |-> 0,
     steps |-> <<>>, grads |-> "none", zeroed |-> TRUE, updates |-> <<>>,
     csv |-> <<>>, best_metric |-> "None", resume |-> FALSE, err |-> ""]

Init ==
    /\ args = NoArgs
    /\ mod = NoModule
    /\ phase = "new"
    /\ call = NoCall
    /\ train = NoTrain

\* kind(dim, ..): the constructor returns a module or raises
Construct(a) ==
    /\ phase = "new"
    /\ args' = a
    /\ LET e == AttentionInitError(a)
       IN  IF e = "" THEN phase' = "built" /\ mod' = NewModule(a)
           ELSE phase' = e /\ mod' = NoModule
    /\ UNCHANGED <<call, train>>

\* module.train() / module.eval()
SetMode(training) ==
    /\ phase = "built"
    /\ mod.training # training
    /\ mod' = [mod EXCEPT !.training = training]
    /\ call' = NoCall
    /\ UNCHANGED <<args, phase, train>>

Train == SetMode(TRUE)
Eval == SetMode(FALSE)

\* the external optimizer replaces the parameters between forward calls
OptimizerStep ==
    /\ phase = "built"
    /\ \E s \in Seeds \ {mod.seed} :
         mod' = [mod EXCEPT !.seed = s,
                            !.proj_kv = IF IsLin(mod.kind) THEN Weight(s, "proj_kv")
                                        ELSE Zero]
    /\ call' = NoCall
    /\ UNCHANGED <<args, phase, train>>

\* the weights of the map that projects the keys are assigned
\* (attn.proj_kv.weight.copy_(w)), every other parameter kept
LoadKeyProjection ==
    /\ phase = "built"
    /\ IsLin(mod.kind)
    /\ \E s \in Seeds :
         /\ Weight(s, KeyProjection) # WeightOf(mod, KeyProjection)
         /\ mod' = [mod EXCEPT !.proj_kv = Weight(s, KeyProjection)]
    /\ call' = NoCall
    /\ UNCHANGED <<args, phase, train>>

\* module(x), the first call since the module changed
Forward(x) ==
    /\ phase = "built"
    /\ call.status = "none"
    /\ \E k \in Masks(mod, x) : call' = ForwardCall(mod, x, k)
    /\ UNCHANGED <<args, mod, phase, train>>

\* module(x) once more, on the input of the call before
ForwardAgain ==
    /\ phase = "built"
    /\ call.status # "none"
    /\ ~call.again
    /\ \E k \in Masks(mod, call.x) :
         call' = [ForwardCall(mod, call.x, k) EXCEPT !.again = TRUE]
    /\ UNCHANGED <<args, mod, phase, train>>

(* Shapes: every module over all channel, head and token counts, called on  *)
(* tensors of every shape, without dropout                                  *)
ShapeArgs ==
    UNION {
      {[kind |-> kind, dim |-> dim, num_heads |-> h, num_tokens |-> n,
        kv_tokens_ratio |-> ratio, mlp_ratio |-> mr, qk_scale |-> qk,
        attn_drop |-> Zero, drop |-> Zero, drop_path |-> Zero, seed |-> 1] :
          dim \in 1..MaxDim, h \in 1..MaxHeads, qk \in QkScales,
          n \in IF IsLin(kind) THEN 1..MaxTokens ELSE {0},
          ratio \in IF IsLin(kind) THEN 1..MaxRatio ELSE {1},
          mr \in IF IsBlock(kind) THEN 1..MaxMlpRatio ELSE {1}} : kind \in Kinds }

ConstructAny == \E a \in ShapeArgs : Construct(a)

ForwardAny ==
    \E b \in 1..MaxBatch, n \in 1..MaxTokens, c \in 1..MaxDim :
       Forward(Tensor(<<b, n, c>>, TRUE, One))

Next == ConstructAny \/ ForwardAny \/ ForwardAgain

Spec == Init /\ [][Next]_vars

(* Values: every module of one channel, one head and one token, over all    *)
(* dropout and stochastic-depth probabilities, modes and parameters, called *)
(* on one-element tensors                                                   *)
ScalarArgs ==
    UNION {
      {[kind |-> kind, dim |-> 1, num_heads |-> 1, num_tokens |-> n,
        kv_tokens_ratio |-> ratio, mlp_ratio |-> 1, qk_scale |-> QkNone,
        attn_drop |-> ad, drop |-> dr, drop_path |-> dp, seed |-> seed] :
          ad \in DropProbs, dr \in DropProbs, seed \in Seeds,
          n \in IF IsLin(kind) THEN {1} ELSE {0},
          ratio \in IF IsLin(kind) THEN 1..MaxRatio ELSE {1},
          dp \in IF IsBlock(kind) THEN PathProbs ELSE {Zero}} : kind \in Kinds }

ConstructScalar == \E a \in ScalarArgs : Construct(a)

ForwardScalar == \E xv \in InputVals : Forward(Tensor(<<1, 1, 1>>, TRUE, RInt(xv)))

NextValue ==
    \/ ConstructScalar \/ Train \/ Eval \/ OptimizerStep \/ LoadKeyProjection
    \/ ForwardScalar \/ ForwardAgain

ValueSpec == Init /\ [][NextValue]_vars

----------------------------------------------------------------------------
(* train.py: main's epoch loop and train_one_epoch, one statement per step *)

\* one more statement of the current batch iteration has run
Did(t, name, pc) == [t EXCEPT !.steps = Append(@, name), !.pc = pc]

\* main: the run starts at start_epoch = resume_epoch (1 here) when resumed,
\* with best_metric = None and an empty list of rows appended to summary.csv
Main ==
    /\ train.pc = "idle"
    /\ \E c \in TrainConfigs :
         train' = [NoTrain EXCEPT !.cfg = c, !.pc = "epoch", !.resume = c.resume,
                                  !.epoch = IF c.resume THEN 1 ELSE 0]
    /\ UNCHANGED <<args, mod, phase, call>>

\* for epoch in range(start_epoch, num_epochs): train_one_epoch(epoch, ..)
\* up to its loop: last_idx = len(loader) - 1, num_updates = epoch * len(loader)
EpochLoop ==
    /\ train.pc = "epoch"
    /\ train' = IF train.epoch >= MaxEpochs THEN [train EXCEPT !.pc = "done"]
                ELSE [train EXCEPT !.pc = "forward", !.batch_idx = 0,
                                   !.last_idx = train.cfg.len - 1,
                                   !.num_updates = train.epoch * train.cfg.len,
                                   !.steps = <<>>, !.updates = <<>>]
    /\ UNCHANGED <<args, mod, phase, call>>

\* output = model(input)
TrainForward ==
    /\ train.pc = "forward"
    /\ train' = Did(train, "forward", "loss")
    /\ UNCHANGED <<args, mod, phase, call>>

\* loss = loss_fn(output, target)
TrainLoss ==
    /\ train.pc = "loss"
    /\ train' = Did(train, "loss", "zero_grad")
    /\ UNCHANGED <<args, mod, phase, call>>

\* (mutant) the gradients of the batch before are kept
AfterZeroGradKeeps(t) == t.grads

\* the gradients after optimizer.zero_grad()
AfterZeroGrad(t) == "zero"

\* optimizer.zero_grad()
ZeroGrad ==
    /\ train.pc = "zero_grad"
    /\ train' = [Did(train, "zero_grad",
                     IF train.cfg.scaler THEN "loss_scaler" ELSE "backward")
                 EXCEPT !.grads = AfterZeroGrad(train)]
    /\ UNCHANGED <<args, mod, phase, call>>

\* loss_scaler(loss, optimizer, ..): backward, clipping and the optimizer's
\* step are the scaler's
LossScaler ==
    /\ train.pc = "loss_scaler"
    /\ train' = [Did(train, "loss_scaler", IF train.cfg.ema THEN "ema" ELSE "log")
                 EXCEPT !.grads = "accumulated",
                        !.zeroed = @ /\ train.grads \in {"none", "zero"}]
    /\ UNCHANGED <<args, mod, phase, call>>

\* loss.backward(): the gradients are added to what the parameters hold
Backward ==
    /\ train.pc = "backward"
    /\ train' = [Did(train, "backward", IF train.cfg.clip THEN "clip" ELSE "step")
                 EXCEPT !.grads = "accumulated",
                        !.zeroed = @ /\ train.grads \in {"none", "zero"}]
    /\ UNCHANGED <<args, mod, phase, call>>

\* dispatch_clip_grad(..) if args.clip_grad is not None
ClipGrad ==
    /\ train.pc = "clip"
    /\ train' = Did(train, "clip", "step")
    /\ UNCHANGED <<args, mod, phase, call>>

\* optimizer.step()
StepOptimizer ==
    /\ train.pc = "step"
    /\ train' = Did(train, "step", IF train.cfg.ema THEN "ema" ELSE "log")
    /\ UNCHANGED <<args, mod, phase, call>>

\* model_ema.update(model) if model_ema is not None
EmaUpdate ==
    /\ train.pc = "ema"
    /\ train' = Did(train, "ema", "log")
    /\ UNCHANGED <<args, mod, phase, call>>

\* the progress log is due: last_batch or batch_idx % args.log_interval == 0
LogDue(t) == t.batch_idx = t.last_idx \/ t.batch_idx % t.cfg.log_interval = 0

\* num_updates += 1, then the progress log, whose percentage is
\* 100.0 * batch_idx / last_idx
LogProgress ==
    /\ train.pc = "log"
    /\ LET t == [train EXCEPT !.num_updates = @ + 1]
           next == IF t.cfg.sched THEN "step_update" ELSE "next"
       IN  train' = IF ~(LogDue(t) /\ t.cfg.local_rank = 0) THEN [t EXCEPT !.pc = next]
                    ELSE IF t.last_idx = 0
                         THEN [t EXCEPT !.pc = "raised", !.err = "ZeroDivisionError"]
                    ELSE Did(t, "log", next)
    /\ UNCHANGED <<args, mod, phase, call>>

\* lr_scheduler.step_update(num_updates=num_updates, ..) if lr_scheduler is not None
StepUpdate ==
    /\ train.pc = "step_update"
    /\ train' = [Did(train, "step_update", "next")
                 EXCEPT !.updates = Append(@, train.num_updates)]
    /\ UNCHANGED <<args, mod, phase, call>>

\* the for loop takes the next batch, or train_one_epoch returns its metrics
NextBatch ==
    /\ train.pc = "next"
    /\ train' = IF train.batch_idx < train.last_idx
                THEN [train EXCEPT !.pc = "forward", !.batch_idx = @ + 1,
                                   !.steps = <<>>, !.updates = <<>>]
                ELSE [train EXCEPT !.pc = "validate", !.steps = <<>>, !.updates = <<>>]
    /\ UNCHANGED <<args, mod, phase, call>>

\* eval_metrics = validate(..); lr_scheduler.step(epoch + 1, ..)
Validate ==
    /\ train.pc = "validate"
    /\ train' = [train EXCEPT !.pc = "summary"]
    /\ UNCHANGED <<args, mod, phase, call>>

\* (mutant) a header decided by write_header alone
SummaryRowsHeaderOnResume(epoch, write_header, resume) ==
    (IF write_header THEN <<[kind |-> "header", epoch |-> epoch]>> ELSE <<>>)
    \o <<[kind |-> "row", epoch |-> epoch]>>

\* utils.update_summary: the rows one call appends to summary.csv
SummaryRows(epoch, write_header, resume) ==
    (IF write_header /\ ~resume THEN <<[kind |-> "header", epoch |-> epoch]>>
     ELSE <<>>) \o <<[kind |-> "row", epoch |-> epoch]>>

\* update_summary replays the rows of the file to wandb when log_wandb and
\* resume != "": open(filename, mode="r") needs the file
ReplayFails(t) ==
    /\ t.cfg.log_wandb /\ t.cfg.local_rank = 0 /\ t.resume
    /\ ~t.cfg.summary_exists /\ t.csv = <<>>

\* if output_dir is not None: update_summary(epoch, .., write_header =
\* best_metric is None, resume = args.resume); args.resume = ""
UpdateSummary ==
    /\ train.pc = "summary"
    /\ train' = IF train.cfg.rank # 0 THEN [train EXCEPT !.pc = "save"]
                ELSE IF ReplayFails(train)
                     THEN [train EXCEPT !.pc = "raised", !.err = "FileNotFoundError"]
                ELSE [train EXCEPT !.pc = "save", !.resume = FALSE,
                         !.csv = @ \o SummaryRows(train.epoch,
                                     train.best_metric = "None", train.resume)]
    /\ UNCHANGED <<args, mod, phase, call>>

\* if saver is not None: best_metric, best_epoch = saver.save_checkpoint(..);
\* then the next epoch
SaveCheckpoint ==
    /\ train.pc = "save"
    /\ train' = [train EXCEPT !.pc = "epoch", !.epoch = @ + 1,
                    !.best_metric = IF train.cfg.rank = 0 THEN "set" ELSE @]
    /\ UNCHANGED <<args, mod, phase, call>>

NextTrain ==
    \/ Main \/ EpochLoop \/ TrainForward \/ TrainLoss \/ ZeroGrad \/ LossScaler
    \/ Backward \/ ClipGrad \/ StepOptimizer \/ EmaUpdate \/ LogProgress
    \/ StepUpdate \/ NextBatch \/ Validate \/ UpdateSummary \/ SaveCheckpoint

TrainSpec == Init /\ [][NextTrain]_vars

----------------------------------------------------------------------------
(* Properties *)

Called == call.status # "none"
Succeeded == call.status = "ok"
ShapeErrors == {"RuntimeError", "EinopsError"}
Batch(t) == t.shape[1]
Tokens(t) == t.shape[2]
Channels(t) == t.shape[3]
\* the operations that multiply matrices: the linear layers and the @ products
MatMulOps == {"qkv", "proj_k", "proj_v", "attn", "av", "proj", "fc1", "fc2"}

\* C1: constructing with qk_scale = s makes self.scale, and the scale
\* multiplied in before every softmax, equal to s; the scale is head_dim^-0.5
\* only when qk_scale is unset.
C1_QkScaleOverridesDefault ==
    phase = "built" =>
        LET want == IF args.qk_scale.set THEN args.qk_scale.invsq
                    ELSE args.dim \div args.num_heads
        IN  /\ mod.scale = want
            /\ \A s \in call.scales : s = want

\* C2: a LinAttention built for N tokens raises a shape error on an input of
\* any other token count and returns no tensor; an input of exactly N tokens
\* (and dim channels, dim divisible by num_heads) is accepted, and its token
\* axis reaches the projection and the output at its full length N.
C2_TokenCountMismatchRaises ==
    (phase = "built" /\ IsLin(mod.kind) /\ Called) =>
        IF Tokens(call.x) # mod.num_tokens
        THEN /\ call.status = "error"
             /\ call.err \in ShapeErrors
             /\ "aout" \notin DOMAIN call.env
        ELSE (Channels(call.x) = mod.dim /\ mod.dim % mod.num_heads = 0) =>
             /\ Succeeded
             /\ Last(call.env["qkv.1"].shape) = mod.num_tokens
             /\ Tokens(Output(call)) = mod.num_tokens

\* C2 witness: a call with the right channels and the wrong token count,
\* stopped by the key projection
C2_Witness ==
    /\ phase = "built" /\ IsLin(mod.kind) /\ Called
    /\ Tokens(call.x) # mod.num_tokens
    /\ Channels(call.x) = mod.dim /\ mod.dim % mod.num_heads = 0
    /\ call.status = "error"
    /\ Last(call.ops) = "proj_k"

\* C3: in FastAttention.forward and LinAttention.forward a shape mismatch is
\* reported before any matrix multiply has run: no linear layer and no @
\* product precedes the operation that raises.
C3_ShapeErrorBeforeAnyMatMul ==
    (phase = "built" /\ ~IsBlock(mod.kind) /\ call.status = "error"
        /\ call.err \in ShapeErrors) =>
        \A i \in 1..(Len(call.ops) - 1) : call.ops[i] \notin MatMulOps

\* the hyper-parameters section 7 of the specification calls invalid
InvalidConfig(a) ==
    \/ IsLin(a.kind) /\ a.num_tokens \div a.kv_tokens_ratio = 0
    \/ a.attn_drop.n < 0
    \/ a.drop.n < 0
    \/ IsBlock(a.kind) /\ a.drop_path.n < 0

\* C4: an invalid hyper-parameter (num_tokens // kv_tokens_ratio = 0, or a
\* negative attn_drop, drop or drop_path) makes the constructor raise: no
\* module is built from it.
C4_InvalidConfigRejected ==
    (phase # "new" /\ InvalidConfig(args)) => phase # "built"

\* C5: FastAttention.forward and FastAttentionBlock.forward on a (B,N,C)
\* input with C = dim divisible by num_heads = H return a (B,N,C) tensor; the
\* keys and values are split into H heads of C/H channels, and the queries
\* and u are recombined to (B,N,C).
C5_FastShapePreserved ==
    (phase = "built" /\ ~IsLin(mod.kind) /\ Called
        /\ Channels(call.x) = mod.dim /\ mod.dim % mod.num_heads = 0) =>
        LET heads == <<Batch(call.x), mod.num_heads, Tokens(call.x),
                       Channels(call.x) \div mod.num_heads>>
        IN  /\ Succeeded
            /\ Output(call).shape = call.x.shape
            /\ call.env["k"].shape = heads
            /\ call.env["v"].shape = heads
            /\ call.env["q"].shape = call.x.shape
            /\ call.env["u"].shape = call.x.shape

\* C5 witness: a successful call that splits 4 channels into 2 heads of 2
C5_Witness ==
    /\ phase = "built" /\ ~IsLin(mod.kind) /\ Succeeded
    /\ mod.num_heads = 2 /\ mod.head_dim = 2
    /\ Batch(call.x) = 2 /\ Tokens(call.x) = 3
    /\ Output(call).shape = <<2, 3, 4>>

\* the floor of n / r, from its definition
FloorQuotient(n, r) == CHOOSE q \in 0..n : q * r <= n /\ (q + 1) * r > n

\* C6: for LinAttention built with num_tokens = N and kv_tokens_ratio = r,
\* K = floor(N / r) >= 1, a call on (B,N,C) with C = dim divisible by H gives
\* keys (B,H,C/H,K), values (B,H,K,C/H), an attention matrix (B,H,N,K) that
\* softmax normalises over its K axis, and an output (B,N,C).
C6_LinShapes ==
    (phase = "built" /\ IsLin(mod.kind) /\ Called
        /\ Tokens(call.x) = args.num_tokens
        /\ Channels(call.x) = args.dim /\ args.dim % args.num_heads = 0
        /\ FloorQuotient(args.num_tokens, args.kv_tokens_ratio) >= 1) =>
        LET b == Batch(call.x)
            n == Tokens(call.x)
            h == args.num_heads
            c == Channels(call.x) \div args.num_heads
            kk == FloorQuotient(args.num_tokens, args.kv_tokens_ratio)
        IN  /\ Succeeded
            /\ call.env["k"].shape = <<b, h, c, kk>>
            /\ call.env["v"].shape = <<b, h, kk, c>>
            /\ call.env["attn"].shape = <<b, h, n, kk>>
            /\ call.axes = <<kk>>
            /\ Output(call).shape = call.x.shape

\* C6 witness: a successful call where r does not divide N
C6_Witness ==
    /\ phase = "built" /\ IsLin(mod.kind) /\ Succeeded
    /\ args.num_tokens % args.kv_tokens_ratio # 0
    /\ mod.kv_tokens >= 1
    /\ mod.num_heads = 2 /\ mod.head_dim = 2
    /\ call.env["attn"].shape = <<Batch(call.x), 2, args.num_tokens, mod.kv_tokens>>

WithoutDropPath(m) == [m EXCEPT !.drop_path = [identity |-> TRUE, p |-> Zero]]
NoDraws == [attn |-> 1, proj |-> 1, mlp1 |-> 1, mlp2 |-> 1, path1 |-> 1, path2 |-> 1]

\* C8: in inference mode a block built with a drop_path p in [0,1) returns
\* what the block with the same parameters built with drop_path = 0 returns.
C8_InferenceIgnoresDropPath ==
    (phase = "built" /\ IsBlock(mod.kind) /\ Succeeded /\ ~mod.training
        /\ args.drop_path.n >= 0 /\ args.drop_path # One) =>
        Output(call) = Output(ForwardCall(WithoutDropPath(mod), call.x, NoDraws))

\* C8 witness: an inference-mode call of a block built with drop_path = 1/2
\* whose attention result is not zero
C8_Witness ==
    /\ phase = "built" /\ IsBlock(mod.kind) /\ Succeeded /\ ~mod.training
    /\ args.drop_path = Prob(1)
    /\ call.env["aout"].v # Zero

\* inference mode, or every dropout and drop_path probability 0
Pure == ~mod.training \/ (args.attn_drop = Zero /\ args.drop = Zero
                          /\ args.drop_path = Zero)

\* a step that is a forward call
IsForward == call'.status # "none" /\ call' # call

\* C9: a forward call changes no state of the module, and in inference mode
\* (or with every dropout and drop_path probability 0) a second call on the
\* same input with the same parameters returns the same result.
C9_ForwardIsPure ==
    [][IsForward =>
         /\ mod' = mod /\ args' = args /\ phase' = phase
         /\ (call.status # "none" /\ call'.x = call.x /\ Pure) =>
              /\ call'.status = call.status
              /\ call'.err = call.err
              /\ call'.env = call.env]_vars

\* C9 witness: a module with active-in-training dropout has been called twice
\* on the same input in inference mode
C9_Witness ==
    /\ Called /\ call.again /\ ~mod.training
    /\ args.attn_drop = Prob(1) /\ args.drop = Prob(1)
    /\ Output(call).v # Zero

\* the token projection applied to the keys and to the values: weight and bias
KeyMap(m) == <<WeightOf(m, KeyProjection), Bias(m.seed, KeyProjection)>>
ValueMap(m) == <<WeightOf(m, ValueProjection), Bias(m.seed, ValueProjection)>>

\* C10 as stated: LinAttention has two token-projection maps with separate
\* weights, so a change of the weights that project the keys leaves the
\* projection of the values as it was.
C10_SeparateProjectionWeights ==
    [][(phase = "built" /\ IsLin(mod.kind) /\ phase' = "built"
          /\ args' = args /\ mod'.seed = mod.seed /\ KeyMap(mod') # KeyMap(mod))
         => ValueMap(mod') = ValueMap(mod)]_vars

\* C10 amended: LinAttention owns one token-projection map, proj_kv, and a
\* call projects both the keys and the values with its current weights, so a
\* change of those weights changes both projections.
C10_SharedProjection ==
    (phase = "built" /\ IsLin(mod.kind) /\ Succeeded /\ mod.kv_tokens = 1) =>
        LET w == mod.proj_kv
            b == Bias(mod.seed, "proj_kv")
        IN  /\ call.env["k"].v = RAdd(RMul(w, call.env["qkv.1"].v), b)
            /\ call.env["v"].v = RAdd(RMul(w, call.env["qkv.2"].v), b)

\* C10 witness: a successful call after proj_kv's weights were assigned,
\* with projected keys and values that are not zero
C10_Witness ==
    /\ phase = "built" /\ IsLin(mod.kind) /\ Succeeded /\ mod.kv_tokens = 1
    /\ mod.proj_kv # Weight(mod.seed, "proj_kv")
    /\ call.env["k"].v # Zero
    /\ call.env["v"].v # Zero

\* a call of FastAttention.forward, alone or inside its block
IsFast == phase = "built" /\ ~IsLin(mod.kind)

\* C11 as stated: in FastAttention.forward the global key vector is the
\* beta-weighted sum over tokens of the intermediate p (the keys multiplied by
\* the global query vector, after attention dropout), not the beta-weighted
\* sum of the raw keys.
C11_GlobalKeyPoolsP ==
    (IsFast /\ Succeeded) =>
        /\ call.env["global_k"].known
        /\ call.env["global_k"].v = RMul(call.env["beta"].v, call.env["p"].v)

\* C12: FastAttention.forward returns proj_drop(proj(u) + q): q is the
\* per-token query of the QKV projection, unmodified; u is the values
\* multiplied by the global key vector; the output dropout acts on the sum,
\* so on the q shortcut as well.
C12_FastOutput ==
    (IsFast /\ Succeeded) =>
        LET env == call.env
            sum == RAdd(RAdd(RMul(Weight(mod.seed, "proj"), env["u"].v),
                             Bias(mod.seed, "proj")), env["q"].v)
            p == mod.proj_drop
            y == env["aout"].v
        IN  /\ env["q"].v = RMul(Weight(mod.seed, "qkv.q"), env["ain"].v)
            /\ env["u"].v = RMul(env["global_k"].v, env["v"].v)
            /\ IF ~mod.training \/ p = Zero THEN y = sum
               ELSE y \in {Zero, RDiv(sum, RSub(One, p))}

\* C12 witness: a training-mode call with output dropout 1/2 whose queries
\* differ from the input and are dropped with the rest of the sum
C12_Witness ==
    /\ IsFast /\ Succeeded /\ mod.training
    /\ mod.proj_drop = Prob(1)
    /\ call.env["q"].v # Zero
    /\ call.env["q"].v # call.env["ain"].v
    /\ call.env["u"].v # Zero
    /\ call.env["aout"].v = Zero

\* the operations of the MLP half of a block
MlpOps == {"norm2", "fc1", "act", "mlp_drop1", "fc2", "mlp_drop2", "drop_path2",
           "residual2"}

\* the stochastic-depth gate's results on t: t itself, t dropped, t rescaled
GateResults(m, t) ==
    IF m.drop_path.identity \/ ~m.training THEN {t.v}
    ELSE IF m.drop_path.p = One THEN {Zero}
    ELSE {Zero, RDiv(t.v, RSub(One, m.drop_path.p))}

\* C13: both blocks compute y = x + SD(Attention(Norm1(x))) and return
\* y + SD(MLP(Norm2(y))): the second normalisation and the second addition
\* take y, not x; attention runs before the MLP; x is added unmodified.
C13_BlockOrder ==
    (phase = "built" /\ IsBlock(mod.kind) /\ Succeeded) =>
        LET env == call.env
            ops == call.ops
        IN  /\ env["norm1.in"] = call.x
            /\ env["branch1"].v \in GateResults(mod, env["aout"])
            /\ env["x1"].v = RAdd(call.x.v, env["branch1"].v)
            /\ env["norm2.in"] = env["x1"]
            /\ env["branch2"].v \in GateResults(mod, env["mlp"])
            /\ Output(call).v = RAdd(env["x1"].v, env["branch2"].v)
            /\ \A i, j \in DOMAIN ops :
                 (ops[i] \in {"qkv", "proj"} /\ ops[j] \in MlpOps) => i < j

\* C13 witness: a block call whose first residual sum differs from the input
\* and whose MLP branch is not zero
C13_Witness ==
    /\ phase = "built" /\ IsBlock(mod.kind) /\ Succeeded
    /\ call.env["x1"].v # call.x.v
    /\ call.env["branch2"].v # Zero
    /\ call.env["branch2"].v # call.env["mlp"].v

\* C14 as stated: for a single-token input with attention dropout 0,
\* FastAttention.forward succeeds, both softmax weights alpha and beta are
\* exactly 1, the global query vector is the token's query vector, the global
\* key vector is the token's weighted vector p, and the output has shape
\* (B,1,C).
C14_SingleToken ==
    (IsFast /\ Called /\ Tokens(call.x) = 1 /\ Channels(call.x) = mod.dim
        /\ mod.attn_drop = Zero) =>
        LET env == call.env
        IN  /\ Succeeded
            /\ env["alpha"].known /\ env["alpha"].v = One
            /\ env["beta"].known /\ env["beta"].v = One
            /\ env["global_q"].v = env["q"].v
            /\ env["global_k"].v = env["p"].v
            /\ env["aout"].shape = <<Batch(call.x), 1, mod.dim>>

\* the statements of one batch iteration without a loss scaler, in the order
\* of train_one_epoch's loop body (the progress log apart)
BatchOrder(c) ==
    <<"forward", "loss", "zero_grad", "backward">>
    \o (IF c.clip THEN <<"clip">> ELSE <<>>) \o <<"step">>
    \o (IF c.ema THEN <<"ema">> ELSE <<>>)
    \o (IF c.sched THEN <<"step_update">> ELSE <<>>)

NotLog(name) == name # "log"
IsPrefix(s, t) == Len(s) <= Len(t) /\ s = SubSeq(t, 1, Len(s))
Count(s, name) == Cardinality({i \in DOMAIN s : s[i] = name})

IsRow(line) == line.kind = "row"
StartEpoch(c) == IF c.resume THEN 1 ELSE 0

\* C16: with an output directory, each completed epoch appends one data row
\* to summary.csv, in epoch order, and nothing else appends; the header is
\* written in an epoch iff best_metric is still None and resume is empty
\* then, which is exactly once, before the first data row, in a run that is
\* not resumed, and never in a resumed run.
C16_SummaryRows ==
    [][/\ train'.csv # train.csv => (train.pc = "summary" /\ train.cfg.rank = 0)
       /\ (train.pc = "summary" /\ train.cfg.rank = 0 /\ train'.pc = "save") =>
            LET old == train.csv
                new == SubSeq(train'.csv, Len(old) + 1, Len(train'.csv))
                header == train.best_metric = "None" /\ ~train.resume
                rows == SelectSeq(train'.csv, IsRow)
            IN  /\ IsPrefix(old, train'.csv)
                /\ new = IF header
                         THEN <<[kind |-> "header", epoch |-> train.epoch],
                                [kind |-> "row", epoch |-> train.epoch]>>
                         ELSE <<[kind |-> "row", epoch |-> train.epoch]>>
                /\ header <=> (~train.cfg.resume /\ old = <<>>)
                /\ Len(rows) = train.epoch - StartEpoch(train.cfg) + 1
                /\ \A i \in DOMAIN rows :
                     rows[i].epoch = StartEpoch(train.cfg) + i - 1]_vars

\* C16 witness: a finished run that was not resumed, with its header and
\* its MaxEpochs rows
C16_Witness ==
    /\ train.pc = "done" /\ train.cfg.rank = 0 /\ ~train.cfg.resume
    /\ Len(train.csv) = MaxEpochs + 1
    /\ train.csv[1].kind = "header"
    /\ Len(SelectSeq(train.csv, IsRow)) = MaxEpochs

\* C17 as stated: train_one_epoch returns for every loader with at least
\* one batch, a loader of exactly one batch logging on local rank 0
\* included: no batch iteration ends in an arithmetic error.
C17_NoArithmeticError == train.err # "ZeroDivisionError"

====
